---- MODULE Spec2Model ----
(***************************************************************************)
(* A model of auto_ml's Predictor (src/auto_ml/predictor.py): construction, *)
(* pipeline and search-space construction, target preparation, the          *)
(* training driver with its per-family grid search and selection, and the   *)
(* prediction facade.                                                       *)
(*                                                                          *)
(* Python values are records [t, num, h]: t is the Python type, num says    *)
(* whether the value denotes a number, h is that number in halves (so "2.5" *)
(* is h = 5 and 3 is h = 6).  math.log and math.exp results are kept        *)
(* symbolically as t = "log" / t = "exp" of the argument h.                 *)
(***************************************************************************)
EXTENDS Integers, Sequences, FiniteSets, TLC

VARIABLES pc, self, call, ret, arg

vars == <<pc, self, call, ret, arg>>

(******************************** bounds ***********************************)
\* longest raw_training_data handed to _prepare_for_training on its own
MaxRows == 3
\* longest raw_training_data handed to train
MaxTrainRows == 1
\* number of train calls made on one Predictor
MaxTrainCalls == 2
\* scores of fitted combinations and of holdout data range over 0..MaxScore
MaxScore == 1
\* longest output of the retained pipeline's predict
MaxPredictions == 1
\* most estimator families searched in one train call
MaxFamilies == 2

(***************************** Python values *******************************)
Val(t, num, h) == [t |-> t, num |-> num, h |-> h]

\* the raw output-column values a training record may carry:
\* "3", "2.5", "bad", 0, 1.5, -1.5, None
RawVals ==
  { Val("str", TRUE, 6), Val("str", TRUE, 5), Val("str", FALSE, 0),
    Val("int", TRUE, 0), Val("float", TRUE, 3), Val("float", TRUE, -3),
    Val("none", FALSE, 0) }

\* float(val) succeeds
CanFloat(v) == v.t \in {"int", "float"} \/ (v.t = "str" /\ v.num)

\* float(val)
PyFloat(v) == Val("float", TRUE, v.h)

\* int(val) succeeds: int("2.5") raises, int(2.5) does not
CanInt(v) == v.t \in {"int", "float"} \/ (v.t = "str" /\ v.num /\ v.h % 2 = 0)

\* int(val): truncation toward zero
PyInt(v) ==
  Val("int", TRUE, IF v.h >= 0 THEN 2 * (v.h \div 2) ELSE -(2 * ((-v.h) \div 2)))

\* math.log(val) succeeds
CanLog(v) == v.h > 0

\* math.log(val)
MathLog(v) == Val("log", TRUE, v.h)

\* math.exp(val)
MathExp(v) == Val("exp", TRUE, v.h)

\* str.lower() on the strings the model passes around
lower(s) ==
  CASE s = "Regressor" -> "regressor"
    [] s = "REGRESSION" -> "regression"
    [] s = "Numeric" -> "numeric"
    [] s = "Classification" -> "classification"
    [] s = "CATEGORIES" -> "categories"
    [] s = "Label" -> "label"
    [] s = "Output" -> "output"
    [] s = "DATE" -> "date"
    [] s = "Date" -> "date"
    [] s = "Regressors" -> "regressors"
    [] s = "NUMBER" -> "number"
    [] s = "Continuous" -> "continuous"
    [] s = "CLASSIFIER" -> "classifier"
    [] s = "Labels" -> "labels"
    [] s = "LABELED" -> "labeled"
    [] s = "Clustering" -> "clustering"
    [] OTHER -> s

(****************************** pipelines **********************************)
\* a sklearn Pipeline: its step names, the final model's parameters and, once
\* fitted by a grid search, the train call that fitted it and whether its
\* parameter combination failed in cross-validation
Pipeline(steps, model_name, optimize, analytics) ==
  [steps |-> steps, model_name |-> model_name,
   perform_grid_search_on_model |-> optimize, ml_for_analytics |-> analytics,
   fitted |-> FALSE, call |-> 0, cv_failed |-> FALSE]

\* self.trained_pipeline = None
NonePipeline == Pipeline(<<>>, "None", FALSE, FALSE)

\* a param_grid without axes
EmptyGrid == [a \in {} |-> <<>>]

(***************************** construction ********************************)
RegressorNames ==
  {"regressor", "regression", "regressions", "regressors", "number", "numeric",
   "continuous"}

ClassifierNames ==
  {"classifier", "classification", "categorizer", "categorization",
   "categories", "labels", "labeled", "label"}

\* estimator-kind strings offered to the constructor
KindStrings ==
  RegressorNames \cup ClassifierNames \cup
  {"Regressor", "REGRESSION", "Numeric", "Classification", "CATEGORIES", "Label",
   "Regressors", "NUMBER", "Continuous", "CLASSIFIER", "Labels", "LABELED",
   "regress", "Clustering", "", "output", "date", "classifier ", "regressor/classifier"}

\* column_descriptions offered to the constructor, as the items of the dict
TrainColumnDescriptions ==
  { << <<"y", "output">>, <<"age", "numeric">> >>,
    << <<"y", "Output">>, <<"signup_date", "DATE">>, <<"age", "numeric">> >> }

ColumnDescriptions ==
  TrainColumnDescriptions \cup
  { << <<"signup_date", "date">>, <<"y", "output">>, <<"seen", "Date">> >>,
    << <<"age", "numeric">> >> }

\* the fields of a Predictor
NoObject ==
  [type_of_estimator |-> "", column_descriptions |-> <<>>, output_column |-> "",
   date_cols |-> <<>>, trained_pipeline |-> NonePipeline, scorer |-> "None",
   took_log_of_y |-> FALSE,
   has_grid_search_pipelines |-> FALSE, grid_search_pipelines |-> <<>>,
   has_compute_power |-> FALSE, compute_power |-> 0,
   X_test |-> FALSE, y_test |-> FALSE,
   has_take_log_of_y |-> FALSE, take_log_of_y |-> FALSE,
   grid_search_params |-> EmptyGrid]

Keys(items) == [i \in 1..Len(items) |-> items[i][1]]

LoweredItems(items) == [i \in 1..Len(items) |-> <<items[i][1], lower(items[i][2])>>]

\* Predictor.__init__ with the membership tests done on the string as passed
InitNoLower(type_of_estimator, column_descriptions) ==
  LET kind == IF type_of_estimator \in RegressorNames THEN "regressor"
              ELSE IF type_of_estimator \in ClassifierNames THEN "classifier"
              ELSE ""
      cds == LoweredItems(column_descriptions)
      outs == SelectSeq(cds, LAMBDA kv : kv[2] = "output")
  IN IF kind = ""
       THEN [ok |-> FALSE, exc |-> "ValueError", obj |-> NoObject]
       ELSE [ok |-> TRUE, exc |-> "",
             obj |-> [NoObject EXCEPT
                        !.type_of_estimator = kind,
                        !.column_descriptions = cds,
                        !.output_column = IF Len(outs) = 0 THEN "" ELSE outs[Len(outs)][1],
                        !.date_cols = Keys(SelectSeq(cds, LAMBDA kv : kv[2] = "date")),
                        !.has_grid_search_pipelines = TRUE]]

\* Predictor.__init__
__init__(type_of_estimator, column_descriptions) ==
  LET kind == IF lower(type_of_estimator) \in RegressorNames THEN "regressor"
              ELSE IF lower(type_of_estimator) \in ClassifierNames THEN "classifier"
              ELSE ""
      cds == LoweredItems(column_descriptions)
      outs == SelectSeq(cds, LAMBDA kv : kv[2] = "output")
  IN IF kind = ""
       THEN [ok |-> FALSE, exc |-> "ValueError", obj |-> NoObject]
       ELSE [ok |-> TRUE, exc |-> "",
             obj |-> [NoObject EXCEPT
                        !.type_of_estimator = kind,
                        !.column_descriptions = cds,
                        !.output_column = IF Len(outs) = 0 THEN "" ELSE outs[Len(outs)][1],
                        !.date_cols = Keys(SelectSeq(cds, LAMBDA kv : kv[2] = "date")),
                        !.has_grid_search_pipelines = TRUE]]

(*************************** _construct_pipeline ***************************)
Opt(cond, name) == IF cond THEN <<name>> ELSE <<>>

\* _construct_pipeline with the scaler appended after the vectorizer
ConstructPipelineScalerLate(obj, has_user_input_func, model_name, optimize_final_model, perform_feature_selection, ml_for_analytics, perform_feature_scaling) ==
  Pipeline(Opt(has_user_input_func, "user_func")
             \o Opt(Len(obj.date_cols) > 0, "date_feature_engineering")
             \o <<"basic_transform">>
             \o <<"dv">>
             \o Opt(perform_feature_scaling, "scaler")
             \o Opt(perform_feature_selection, "feature_selection")
             \o <<"final_model">>,
           model_name, optimize_final_model, ml_for_analytics)

\* Predictor._construct_pipeline
_construct_pipeline(obj, has_user_input_func, model_name, optimize_final_model, perform_feature_selection, ml_for_analytics, perform_feature_scaling) ==
  Pipeline(Opt(has_user_input_func, "user_func")
             \o Opt(Len(obj.date_cols) > 0, "date_feature_engineering")
             \o <<"basic_transform">>
             \o Opt(perform_feature_scaling, "scaler")
             \o <<"dv">>
             \o Opt(perform_feature_selection, "feature_selection")
             \o <<"final_model">>,
           model_name, optimize_final_model, ml_for_analytics)

(********************** _construct_pipeline_search_params ******************)
\* largest compute_power handed to the search-space builder
MaxComputePower == 10

Axis(cond, name, values) == IF cond THEN name :> values ELSE EmptyGrid

\* Predictor._get_estimator_names: the classifier branch reads the name
\* compute_power, which is bound nowhere
_get_estimator_names(obj) ==
  IF obj.type_of_estimator = "regressor"
    THEN [ok |-> TRUE, exc |-> "",
          names |-> IF obj.compute_power < 7
                      THEN <<"Ridge", "XGBRegressor">>
                      ELSE <<"Ridge", "XGBRegressor", "RANSACRegressor", "RandomForestRegressor", "LinearRegression", "AdaBoostRegressor", "ExtraTreesRegressor">>]
    ELSE IF obj.type_of_estimator = "classifier"
      THEN [ok |-> FALSE, exc |-> "NameError", names |-> <<>>]
      ELSE [ok |-> FALSE, exc |-> "TypeError", names |-> <<>>]

\* _construct_pipeline_search_params with the scaler axis searched at
\* compute_power 3 and 4 only
SearchParamsScalerBand(obj, optimize_final_model, perform_feature_selection, user_defined_model_names) ==
  LET est == IF Len(user_defined_model_names) > 0
               THEN [ok |-> TRUE, exc |-> "", names |-> user_defined_model_names]
               ELSE _get_estimator_names(obj)
  IN IF ~est.ok
       THEN [ok |-> FALSE, exc |-> est.exc, grid |-> EmptyGrid]
       ELSE [ok |-> TRUE, exc |-> "",
             grid |-> Axis(optimize_final_model \/ obj.compute_power >= 5, "final_model__perform_grid_search_on_model", <<"True", "False">>)
                      @@ Axis(obj.compute_power >= 3 /\ obj.compute_power < 5, "scaler__truncate_large_values", <<"True", "False">>)
                      @@ ("final_model__model_name" :> est.names)
                      @@ Axis(obj.compute_power >= 10, "feature_selection__feature_selection_model", <<"SelectFromModel", "GenericUnivariateSelect", "KeepAll", "RFECV">>)]

\* Predictor._construct_pipeline_search_params; user_defined_model_names is
\* <<>> for None, and perform_feature_selection is accepted and not read
_construct_pipeline_search_params(obj, optimize_final_model, perform_feature_selection, user_defined_model_names) ==
  LET est == IF Len(user_defined_model_names) > 0
               THEN [ok |-> TRUE, exc |-> "", names |-> user_defined_model_names]
               ELSE _get_estimator_names(obj)
  IN IF ~est.ok
       THEN [ok |-> FALSE, exc |-> est.exc, grid |-> EmptyGrid]
       ELSE [ok |-> TRUE, exc |-> "",
             grid |-> Axis(optimize_final_model \/ obj.compute_power >= 5, "final_model__perform_grid_search_on_model", <<"True", "False">>)
                      @@ Axis(obj.compute_power >= 3, "scaler__truncate_large_values", <<"True", "False">>)
                      @@ ("final_model__model_name" :> est.names)
                      @@ Axis(obj.compute_power >= 10, "feature_selection__feature_selection_model", <<"SelectFromModel", "GenericUnivariateSelect", "KeepAll", "RFECV">>)]

\* the head of one iteration of perform_grid_search_by_model_names: the grid
\* built with default arguments, its model-name axis then overwritten
FamilyGrid(obj, model_name) ==
  LET built == _construct_pipeline_search_params(obj, FALSE, TRUE, <<>>)
  IN IF ~built.ok
       THEN built
       ELSE [built EXCEPT !.grid = ("final_model__model_name" :> <<model_name>>) @@ built.grid]

(************************* _prepare_for_training ***************************)
\* raw_training_data: records carrying their identity and their output value
Rows(ys) == [i \in 1..Len(ys) |-> [id |-> i, output |-> ys[i]]]

TrainingDataOver(vals, n) == UNION {{Rows(ys) : ys \in [1..k -> vals]} : k \in 0..n}

TrainingData(n) == TrainingDataOver(RawVals, n)

\* the output values of the records handed to train: "3", "bad", 0
TrainRawVals == {Val("str", TRUE, 6), Val("str", FALSE, 0), Val("int", TRUE, 0)}

\* utils.split_output: the feature records and the parallel target sequence
split_output(raw) ==
  [X |-> [i \in 1..Len(raw) |-> [id |-> raw[i].id]],
   y |-> [i \in 1..Len(raw) |-> raw[i].output]]

\* enumerate(y)'s indices, from 0
Indices(y) == [i \in 1..Len(y) |-> i - 1]

\* y_ints: every value through int()
Ints(y) == [i \in 1..Len(y) |-> PyInt(y[i])]

\* y_floats: the values float() accepts, through float()
Floats(y) == [i \in 1..Len(SelectSeq(y, CanFloat)) |-> PyFloat(SelectSeq(y, CanFloat)[i])]

\* _prepare_for_training with the feature rows left unfiltered
PrepareKeepAllRows(obj, raw_training_data) ==
  LET s == split_output(raw_training_data)
      bad == SelectSeq(Indices(s.y), LAMBDA idx : ~CanFloat(s.y[idx + 1]))
  IN IF obj.type_of_estimator = "classifier"
       THEN [X |-> s.X,
             y |-> IF \A i \in 1..Len(s.y) : CanInt(s.y[i]) THEN Ints(s.y) ELSE s.y,
             indices_to_delete |-> <<>>, bad_vals |-> <<>>]
       ELSE [X |-> s.X,
             y |-> Floats(s.y),
             indices_to_delete |-> bad,
             bad_vals |-> [k \in 1..Len(bad) |-> s.y[bad[k] + 1]]]

\* _prepare_for_training with a try block per classifier target
PrepareCoerceEach(obj, raw_training_data) ==
  LET s == split_output(raw_training_data)
      bad == SelectSeq(Indices(s.y), LAMBDA idx : ~CanFloat(s.y[idx + 1]))
  IN IF obj.type_of_estimator = "classifier"
       THEN [X |-> s.X,
             y |-> [i \in 1..Len(s.y) |-> IF CanInt(s.y[i]) THEN PyInt(s.y[i]) ELSE s.y[i]],
             indices_to_delete |-> <<>>, bad_vals |-> <<>>]
       ELSE [X |-> SelectSeq(s.X, LAMBDA row : \A k \in 1..Len(bad) : bad[k] # row.id - 1),
             y |-> Floats(s.y),
             indices_to_delete |-> bad,
             bad_vals |-> [k \in 1..Len(bad) |-> s.y[bad[k] + 1]]]

\* Predictor._prepare_for_training.  Classifier: one try block around the
\* whole conversion loop, so y is replaced only when every int() succeeds.
\* Regressor: a try block per value; the rows of failed values are removed.
_prepare_for_training(obj, raw_training_data) ==
  LET s == split_output(raw_training_data)
      bad == SelectSeq(Indices(s.y), LAMBDA idx : ~CanFloat(s.y[idx + 1]))
  IN IF obj.type_of_estimator = "classifier"
       THEN [X |-> s.X,
             y |-> IF \A i \in 1..Len(s.y) : CanInt(s.y[i]) THEN Ints(s.y) ELSE s.y,
             indices_to_delete |-> <<>>, bad_vals |-> <<>>]
       ELSE [X |-> SelectSeq(s.X, LAMBDA row : \A k \in 1..Len(bad) : bad[k] # row.id - 1),
             y |-> Floats(s.y),
             indices_to_delete |-> bad,
             bad_vals |-> [k \in 1..Len(bad) |-> s.y[bad[k] + 1]]]

(************************ shapes of call and ret ***************************)
\* the local variables of a train call in progress, with the record of what
\* the call did: its number, how it ended (and the source line that raised),
\* whether line 188 transformed the targets, the results it appended, its
\* most recent grid search, and whether every call so far was free of
\* failures from outside (a target math.log rejects, fit or report raising)
NoSearch ==
  [searched |-> FALSE, some_fitted |-> FALSE, some_failed |-> FALSE, best_score |-> 0,
   best_failed |-> FALSE, raised |-> FALSE]

NoCall ==
  [id |-> 0, status |-> "none", exc |-> "", line |-> 0, logged |-> FALSE,
   estimator_names |-> <<>>, k |-> 0, ppl |-> NonePipeline, results |-> <<>>,
   search |-> NoSearch, clean |-> TRUE]

\* the outcome of the most recent call on the Predictor
NoRet == [op |-> "", status |-> "", kind |-> "", raw |-> <<>>, value |-> <<>>]

\* the Predictors the constructor produces
Predictors ==
  {__init__(kind, cd).obj : kind \in {"regressor", "classifier"}, cd \in ColumnDescriptions}

Range(s) == {s[i] : i \in 1..Len(s)}

(************** _prepare_for_training applied to bounded inputs *************)
InitPrep ==
  /\ pc = "input"
  /\ self \in Predictors
  /\ arg \in {[raw |-> d] : d \in TrainingData(MaxRows)}
  /\ call = NoCall
  /\ ret = [X |-> <<>>, y |-> <<>>, indices_to_delete |-> <<>>, bad_vals |-> <<>>]

PrepareForTraining ==
  /\ pc = "input"
  /\ ret' = _prepare_for_training(self, arg.raw)
  /\ pc' = "done"
  /\ UNCHANGED <<self, call, arg>>

NextPrep == PrepareForTraining

SpecPrep == InitPrep /\ [][NextPrep]_vars

(**************** _construct_pipeline applied to bounded inputs *************)
InitPipe ==
  /\ pc = "input"
  /\ self \in Predictors
  /\ arg \in [has_user_input_func : BOOLEAN, model_name : {"LogisticRegression", "Ridge"},
              optimize_final_model : BOOLEAN, perform_feature_selection : BOOLEAN,
              ml_for_analytics : BOOLEAN, perform_feature_scaling : BOOLEAN]
  /\ call = NoCall
  /\ ret = NonePipeline

ConstructPipeline ==
  /\ pc = "input"
  /\ ret' = _construct_pipeline(self, arg.has_user_input_func, arg.model_name, arg.optimize_final_model, arg.perform_feature_selection, arg.ml_for_analytics, arg.perform_feature_scaling)
  /\ pc' = "done"
  /\ UNCHANGED <<self, call, arg>>

NextPipe == ConstructPipeline

SpecPipe == InitPipe /\ [][NextPipe]_vars

(********* _construct_pipeline_search_params applied to bounded inputs ******)
\* model_names a caller may pass; <<>> is None
UserModelNames(kind) ==
  IF kind = "regressor"
    THEN {<<>>, <<"Ridge">>, <<"LinearRegression", "Ridge">>}
    ELSE {<<>>, <<"LogisticRegression">>, <<"RandomForestClassifier", "RidgeClassifier">>}

\* train's estimator_names (lines 199-202)
EstimatorNames(obj, model_names) ==
  IF Len(model_names) > 0
    THEN [ok |-> TRUE, exc |-> "", names |-> model_names]
    ELSE _get_estimator_names(obj)

InitGrid ==
  /\ pc = "input"
  /\ \E obj \in Predictors, a \in 0..MaxComputePower :
       /\ self = [obj EXCEPT !.has_compute_power = TRUE, !.compute_power = a]
       /\ arg \in [optimize_final_model : BOOLEAN, perform_feature_selection : BOOLEAN,
                   user_defined_model_names : UserModelNames(obj.type_of_estimator)]
  /\ call = NoCall
  /\ ret = [op |-> "", model_name |-> "", res |-> [ok |-> FALSE, exc |-> "", grid |-> EmptyGrid]]

ConstructSearchParams ==
  /\ pc = "input"
  /\ ret' = [op |-> "params", model_name |-> "",
             res |-> _construct_pipeline_search_params(self, arg.optimize_final_model, arg.perform_feature_selection, arg.user_defined_model_names)]
  /\ pc' = "done"
  /\ UNCHANGED <<self, call, arg>>

GridForFamily ==
  /\ pc = "input"
  /\ EstimatorNames(self, arg.user_defined_model_names).ok
  /\ \E model_name \in Range(EstimatorNames(self, arg.user_defined_model_names).names) :
       ret' = [op |-> "family", model_name |-> model_name, res |-> FamilyGrid(self, model_name)]
  /\ pc' = "done"
  /\ UNCHANGED <<self, call, arg>>

NextGrid == ConstructSearchParams \/ GridForFamily

SpecGrid == InitGrid /\ [][NextGrid]_vars

(************************** the training driver ****************************)
\* GridSearchCV's error_score (line 256)
error_score == 10

\* compute_power values handed to train
TrainComputePowers == {3, 10}

\* utils.rmse_scoring and the holdout score: the values a score may take
ScoreRange == 0..MaxScore

\* what cross-validation of one parameter combination may yield: a score, or
\* a failure to fit, which GridSearchCV scores error_score
CvOutcomes ==
  {[failed |-> FALSE, score |-> s] : s \in ScoreRange} \cup {[failed |-> TRUE, score |-> error_score]}

RECURSIVE GridSizeOver(_, _)
GridSizeOver(grid, axes) ==
  IF axes = {} THEN 1
  ELSE LET a == CHOOSE x \in axes : TRUE IN Len(grid[a]) * GridSizeOver(grid, axes \ {a})

\* the number of parameter combinations of a param_grid
GridSize(grid) == GridSizeOver(grid, DOMAIN grid)

\* the sets of outcomes the combinations of a grid may show between them
CvOutcomeSets(grid) ==
  {S \in SUBSET CvOutcomes : S # {} /\ Cardinality(S) <= GridSize(grid)}

\* GridSearchCV's best combination: the greatest mean score
BestOutcome(outcomes) == CHOOSE o \in outcomes : \A p \in outcomes : o.score >= p.score

\* x[0] of a pipeline_results list: the holdout score when one was appended
\* (line 286), the cross-validation best score otherwise (line 291)
Key(r) == IF r.has_holdout THEN r.holdout_score ELSE r.best_score

\* sorted(self.grid_search_pipelines, key=lambda x: x[0], reverse=True)[0]:
\* the sort is stable, so the first of the results with the greatest key
BestResult(results) ==
  results[CHOOSE i \in 1..Len(results) :
            /\ \A j \in 1..Len(results) : Key(results[i]) >= Key(results[j])
            /\ \A j \in 1..(i - 1) : Key(results[j]) < Key(results[i])]

Init ==
  /\ pc = "noobj"
  /\ self = NoObject
  /\ call = NoCall
  /\ ret = NoRet
  /\ arg = [raw |-> <<>>]

\* Predictor(type_of_estimator, column_descriptions), the arguments drawn
\* from the given sets
ConstructFrom(kinds, cds) ==
  /\ pc = "noobj"
  /\ \E kind \in kinds, cd \in cds :
       LET r == __init__(kind, cd)
       IN /\ self' = r.obj
          /\ pc' = IF r.ok THEN "idle" ELSE "noobj"
          /\ ret' = [NoRet EXCEPT !.op = "__init__", !.status = IF r.ok THEN "ok" ELSE r.exc, !.kind = kind]
  /\ UNCHANGED <<call, arg>>

\* a train call ending in an exception raised at the given line
Abort(obj, exc, line, clean) ==
  /\ self' = obj
  /\ pc' = "idle"
  /\ call' = [call EXCEPT !.status = "aborted", !.exc = exc, !.line = line, !.clean = clean]
  /\ ret' = [NoRet EXCEPT !.op = "train", !.status = exc]

\* train, lines 172-213: the arguments stored on the instance, the targets
\* prepared and log-transformed, the pipeline built, the families named
TrainBegin(raw, has_user_input_func, optimize_final_model, perform_feature_selection, ml_for_analytics, holdout, compute_power, take_log_of_y, model_names) ==
  LET obj1 == [self EXCEPT !.has_compute_power = TRUE, !.compute_power = compute_power,
                           !.X_test = holdout, !.y_test = holdout,
                           !.has_take_log_of_y = @ \/ self.type_of_estimator = "regressor",
                           !.take_log_of_y = IF self.type_of_estimator = "regressor" THEN take_log_of_y ELSE @]
      prep == _prepare_for_training(obj1, raw)
      logged == obj1.has_take_log_of_y /\ obj1.take_log_of_y /\ \A i \in 1..Len(prep.y) : CanLog(prep.y[i])
      obj2 == [obj1 EXCEPT !.took_log_of_y = @ \/ logged]
      ppl == _construct_pipeline(obj2, has_user_input_func, "LogisticRegression", optimize_final_model, perform_feature_selection, ml_for_analytics, TRUE)
      est == EstimatorNames(obj2, model_names)
      begun == [NoCall EXCEPT !.id = call.id + 1, !.status = "running", !.clean = call.clean]
  IN /\ pc = "idle"
     /\ call.id < MaxTrainCalls
     /\ est.ok => Len(est.names) <= MaxFamilies
     /\ UNCHANGED arg
     /\ IF ~obj1.has_take_log_of_y
          THEN /\ self' = obj1
               /\ pc' = "idle"
               /\ call' = [begun EXCEPT !.status = "aborted", !.exc = "AttributeError", !.line = 187]
               /\ ret' = [NoRet EXCEPT !.op = "train", !.status = "AttributeError"]
        ELSE IF obj1.take_log_of_y /\ ~logged
          THEN /\ self' = obj1
               /\ pc' = "idle"
               /\ call' = [begun EXCEPT !.status = "aborted", !.exc = "ValueError", !.line = 188, !.clean = FALSE]
               /\ ret' = [NoRet EXCEPT !.op = "train", !.status = "ValueError"]
        ELSE IF ~est.ok
          THEN /\ self' = obj2
               /\ pc' = "idle"
               /\ call' = [begun EXCEPT !.status = "aborted", !.exc = est.exc, !.line = 202, !.logged = logged]
               /\ ret' = [NoRet EXCEPT !.op = "train", !.status = est.exc]
        ELSE /\ self' = [obj2 EXCEPT !.scorer = IF self.type_of_estimator = "classifier" THEN "brier_score_loss" ELSE "rmse_scoring"]
             /\ pc' = "search"
             /\ call' = [begun EXCEPT !.logged = logged, !.estimator_names = est.names, !.k = 1, !.ppl = ppl]
             /\ ret' = [NoRet EXCEPT !.op = "train", !.status = "running"]

\* the families whose fit is followed by an analytics report (lines 269-272)
ReportedFamilies ==
  {"LogisticRegression", "RidgeClassifier", "LinearRegression", "Ridge",
   "RandomForestClassifier", "RandomForestRegressor", "XGBClassifier", "XGBRegressor"}

\* one iteration of perform_grid_search_by_model_names (lines 236-293), for
\* the outcomes cross-validation shows, whether refitting a best combination
\* that failed in cross-validation succeeds, whether the analytics report
\* raises, and the holdout score
SearchFamily(outcomes, refit_ok, report_raises, holdout_score) ==
  LET model_name == call.estimator_names[call.k]
      built == FamilyGrid(self, model_name)
      obj1 == [self EXCEPT !.grid_search_params = built.grid]
      best == BestOutcome(outcomes)
      searched == [searched |-> TRUE, some_fitted |-> \E o \in outcomes : ~o.failed,
                   some_failed |-> \E o \in outcomes : o.failed,
                   best_score |-> best.score, best_failed |-> best.failed, raised |-> FALSE]
      best_estimator_ == [call.ppl EXCEPT !.model_name = model_name, !.fitted = TRUE, !.call = call.id,
                                         !.cv_failed = best.failed]
      obj2 == [obj1 EXCEPT !.trained_pipeline = best_estimator_]
      has_holdout == self.X_test /\ self.y_test
      pipeline_results == [has_holdout |-> has_holdout, holdout_score |-> holdout_score,
                           best_score |-> best.score, gs |-> best_estimator_]
  IN /\ pc = "search"
     /\ UNCHANGED arg
     /\ IF ~built.ok
          THEN Abort(self, built.exc, 238, call.clean)
        ELSE IF best.failed /\ ~refit_ok
          THEN /\ self' = obj1
               /\ pc' = "idle"
               /\ call' = [call EXCEPT !.status = "aborted", !.exc = "FitError", !.line = 266, !.clean = FALSE,
                                       !.search = [searched EXCEPT !.raised = TRUE]]
               /\ ret' = [NoRet EXCEPT !.op = "train", !.status = "FitError"]
        ELSE IF report_raises
          THEN /\ self' = obj2
               /\ pc' = "idle"
               /\ call' = [call EXCEPT !.status = "aborted", !.exc = "ReportError", !.line = 270, !.clean = FALSE,
                                       !.search = searched]
               /\ ret' = [NoRet EXCEPT !.op = "train", !.status = "ReportError"]
        ELSE IF ~self.has_grid_search_pipelines
          THEN /\ self' = obj2
               /\ pc' = "idle"
               /\ call' = [call EXCEPT !.status = "aborted", !.exc = "AttributeError", !.line = 293, !.search = searched]
               /\ ret' = [NoRet EXCEPT !.op = "train", !.status = "AttributeError"]
        ELSE /\ self' = [obj2 EXCEPT !.grid_search_pipelines = Append(@, pipeline_results)]
             /\ pc' = IF call.k = Len(call.estimator_names) THEN "select" ELSE "search"
             /\ call' = [call EXCEPT !.k = @ + 1, !.results = Append(@, pipeline_results), !.search = searched]
             /\ UNCHANGED ret

\* train, lines 223-232: the best result's pipeline retained, the results
\* deleted
Select ==
  /\ pc = "select"
  /\ self' = [self EXCEPT !.trained_pipeline = BestResult(self.grid_search_pipelines).gs,
                          !.has_grid_search_pipelines = FALSE, !.grid_search_pipelines = <<>>]
  /\ pc' = "idle"
  /\ call' = [call EXCEPT !.status = "done", !.search = NoSearch]
  /\ ret' = [NoRet EXCEPT !.op = "train", !.status = "ok"]
  /\ UNCHANGED arg

(************************** the prediction facade **************************)
\* the raw predictions the retained pipeline may return: -0.5, 2.0
PredVals == {Val("float", TRUE, -1), Val("float", TRUE, 4)}

RawPredictions == UNION {[1..n -> PredVals] : n \in 0..MaxPredictions}

\* model_names handed to train; <<>> is None
TrainModelNames(kind) ==
  IF kind = "regressor" THEN {<<>>, <<"LinearRegression">>} ELSE {<<>>, <<"LogisticRegression">>}

\* Predictor.predict: with took_log_of_y set, the loop "for idx, val in
\* predicted_vals" unpacks each element of the one-dimensional output into
\* two names, which raises TypeError at the first element
predict(obj, predicted_vals) ==
  IF ~obj.trained_pipeline.fitted
    THEN [status |-> "AttributeError", value |-> <<>>]
  ELSE IF obj.took_log_of_y /\ Len(predicted_vals) > 0
    THEN [status |-> "TypeError", value |-> <<>>]
  ELSE [status |-> "ok", value |-> predicted_vals]

Predict ==
  /\ pc = "idle"
  /\ \E predicted_vals \in RawPredictions :
       LET r == predict(self, predicted_vals)
       IN ret' = [NoRet EXCEPT !.op = "predict", !.status = r.status, !.raw = predicted_vals, !.value = r.value]
  /\ UNCHANGED <<pc, self, call, arg>>

\* the Predictors trained on: a regressor and a classifier, without and with
\* a date column
Construct == ConstructFrom({"regressor", "Classification", "regress"}, TrainColumnDescriptions)

Train ==
  \E raw \in TrainingDataOver(TrainRawVals, MaxTrainRows), perform_feature_selection \in BOOLEAN, holdout \in BOOLEAN,
     compute_power \in TrainComputePowers, take_log_of_y \in BOOLEAN,
     model_names \in TrainModelNames(self.type_of_estimator) :
    TrainBegin(raw, FALSE, FALSE, perform_feature_selection, TRUE, holdout, compute_power, take_log_of_y, model_names)

Search ==
  /\ pc = "search"
  /\ \E outcomes \in CvOutcomeSets(FamilyGrid(self, call.estimator_names[call.k]).grid),
        refit_ok \in BOOLEAN, report_raises \in BOOLEAN, holdout_score \in ScoreRange :
       /\ ~BestOutcome(outcomes).failed => refit_ok
       /\ call.estimator_names[call.k] \notin ReportedFamilies => ~report_raises
       /\ ~(self.X_test /\ self.y_test) => holdout_score = 0
       /\ SearchFamily(outcomes, refit_ok, report_raises, holdout_score)

Next == Construct \/ Train \/ Search \/ Select \/ Predict

Spec == Init /\ [][Next]_vars

(************************ construction on its own **************************)
ConstructAny == ConstructFrom(KindStrings, ColumnDescriptions)

NextInit == ConstructAny

SpecInit == Init /\ [][NextInit]_vars

(******************************* claims ************************************)
\* the positions of raw_training_data whose output value float() accepts
Kept(raw) == {i \in 1..Len(raw) : CanFloat(raw[i].output)}

\* the position of the k-th such record
Pos(raw, k) == CHOOSE i \in Kept(raw) : Cardinality({j \in Kept(raw) : j <= i}) = k

\* C2: for a regressor, _prepare_for_training returns X and y of equal length
\* holding exactly the records whose output converts to a float, in their
\* original order, each target being the float of its original value; the
\* reported indices and bad values are the original (0-based) positions and
\* the original values of the removed records.
C2_RegressorDropsExactlyNonNumeric ==
  (pc = "done" /\ self.type_of_estimator = "regressor") =>
    LET raw == arg.raw
        dropped == (1..Len(raw)) \ Kept(raw)
    IN /\ Len(ret.X) = Len(ret.y)
       /\ Len(ret.y) = Cardinality(Kept(raw))
       /\ \A k \in 1..Len(ret.y) :
            /\ ret.X[k].id = raw[Pos(raw, k)].id
            /\ ret.y[k] = PyFloat(raw[Pos(raw, k)].output)
       /\ Len(ret.indices_to_delete) = Cardinality(dropped)
       /\ Range(ret.indices_to_delete) = {i - 1 : i \in dropped}
       /\ Len(ret.bad_vals) = Len(ret.indices_to_delete)
       /\ \A k \in 1..Len(ret.bad_vals) :
            ret.bad_vals[k] = raw[ret.indices_to_delete[k] + 1].output

\* a regressor's preparation that dropped the middle one of three records
C2_Witness ==
  /\ pc = "done"
  /\ self.type_of_estimator = "regressor"
  /\ Len(arg.raw) = 3
  /\ ret.indices_to_delete = <<1>>
  /\ Len(ret.X) = 2

\* C7 (as claimed): for a classifier, _prepare_for_training drops no record,
\* and each target that converts to an integer is that integer while each
\* target that does not is kept as it was, whatever the other targets are.
C7_ClassifierCoercesEachValue ==
  (pc = "done" /\ self.type_of_estimator = "classifier") =>
    /\ Len(ret.X) = Len(arg.raw)
    /\ Len(ret.y) = Len(arg.raw)
    /\ \A i \in 1..Len(arg.raw) :
         /\ ret.X[i].id = arg.raw[i].id
         /\ ret.y[i] = IF CanInt(arg.raw[i].output) THEN PyInt(arg.raw[i].output) ELSE arg.raw[i].output

\* C7 (amended): for a classifier, _prepare_for_training drops no record; when
\* every target converts to an integer the returned targets are those
\* integers, and otherwise the returned targets are the original values, the
\* convertible ones included.
C7_ClassifierAllOrNothing ==
  (pc = "done" /\ self.type_of_estimator = "classifier") =>
    /\ Len(ret.X) = Len(arg.raw)
    /\ Len(ret.y) = Len(arg.raw)
    /\ \A i \in 1..Len(arg.raw) : ret.X[i].id = arg.raw[i].id
    /\ IF \A i \in 1..Len(arg.raw) : CanInt(arg.raw[i].output)
         THEN \A i \in 1..Len(arg.raw) : ret.y[i] = PyInt(arg.raw[i].output)
         ELSE \A i \in 1..Len(arg.raw) : ret.y[i] = arg.raw[i].output

\* a classifier's preparation of "3" followed by "bad": both kept as given
C7_Witness ==
  /\ pc = "done"
  /\ self.type_of_estimator = "classifier"
  /\ Len(arg.raw) = 2
  /\ arg.raw[1].output = Val("str", TRUE, 6) /\ arg.raw[2].output = Val("str", FALSE, 0)
  /\ ret.y = <<Val("str", TRUE, 6), Val("str", FALSE, 0)>>

\* the fixed stage order of section 4.1
StageOrder ==
  <<"user_func", "date_feature_engineering", "basic_transform", "scaler", "dv", "feature_selection", "final_model">>

\* s is a subsequence of t, for t without repetitions
IsSubsequence(s, t) == s = SelectSeq(t, LAMBDA x : x \in Range(s))

\* C10: the stage list _construct_pipeline produces is a subsequence of the
\* fixed order, always holds basic_transform, dv and final_model with
\* final_model last, and holds each optional stage exactly when its switch
\* or condition holds.
C10_StageListOrdered ==
  pc = "done" =>
    /\ IsSubsequence(ret.steps, StageOrder)
    /\ {"basic_transform", "dv", "final_model"} \subseteq Range(ret.steps)
    /\ ret.steps[Len(ret.steps)] = "final_model"
    /\ "user_func" \in Range(ret.steps) <=> arg.has_user_input_func
    /\ "date_feature_engineering" \in Range(ret.steps) <=> Len(self.date_cols) > 0
    /\ "scaler" \in Range(ret.steps) <=> arg.perform_feature_scaling
    /\ "feature_selection" \in Range(ret.steps) <=> arg.perform_feature_selection

\* a pipeline built with every optional stage present
C10_Witness ==
  /\ pc = "done"
  /\ arg.has_user_input_func /\ arg.perform_feature_scaling /\ arg.perform_feature_selection
  /\ Len(self.date_cols) > 0
  /\ Len(ret.steps) = 7

\* grid g is contained in grid h: every axis of g is an axis of h with at
\* least the same candidate values
GridLeq(g, h) ==
  \A axis \in DOMAIN g : axis \in DOMAIN h /\ Range(g[axis]) \subseteq Range(h[axis])

\* C5: the grid generated at compute power a is contained in the grid
\* generated, with the same other arguments, at every b with a <= b <=
\* MaxComputePower; and the grid of a per-family search has the axis
\* final_model__model_name with the searched family as its one value.
C5_SearchSpaceMonotone ==
  pc = "done" =>
    /\ (ret.op = "params" /\ ret.res.ok) =>
         \A b \in self.compute_power..MaxComputePower :
           LET at_b == _construct_pipeline_search_params([self EXCEPT !.compute_power = b], arg.optimize_final_model, arg.perform_feature_selection, arg.user_defined_model_names)
           IN at_b.ok /\ GridLeq(ret.res.grid, at_b.grid)
    /\ (ret.op = "family" /\ ret.res.ok) =>
         /\ "final_model__model_name" \in DOMAIN ret.res.grid
         /\ ret.res.grid["final_model__model_name"] = <<ret.model_name>>

\* a grid generated at compute power 4 with default names, below every
\* threshold but the scaler's
C5_Witness ==
  /\ pc = "done"
  /\ ret.op = "params" /\ ret.res.ok
  /\ self.compute_power = 4
  /\ arg.user_defined_model_names = <<>>
  /\ DOMAIN ret.res.grid = {"scaler__truncate_large_values", "final_model__model_name"}

\* C1: construction with a string that is, case-insensitively, an accepted
\* regressor (classifier) synonym succeeds with type_of_estimator exactly
\* "regressor" ("classifier"); with any other string it raises and produces
\* no Predictor.
C1_KindNormalized ==
  ret.op = "__init__" =>
    IF \E n \in RegressorNames : lower(ret.kind) = lower(n)
      THEN pc = "idle" /\ ret.status = "ok" /\ self.type_of_estimator = "regressor"
    ELSE IF \E n \in ClassifierNames : lower(ret.kind) = lower(n)
      THEN pc = "idle" /\ ret.status = "ok" /\ self.type_of_estimator = "classifier"
    ELSE pc = "noobj" /\ ret.status = "ValueError" /\ self = NoObject

\* a Predictor constructed from the upper-case synonym "REGRESSION"
C1_Witness ==
  /\ ret.op = "__init__" /\ ret.kind = "REGRESSION"
  /\ pc = "idle" /\ self.type_of_estimator = "regressor"

\* the primary score of a result of the current call: the holdout score when
\* holdout data was supplied, the cross-validation best score otherwise
Primary(r) == IF self.X_test /\ self.y_test THEN r.holdout_score ELSE r.best_score

\* C3: when train has finished, the retained pipeline is the best estimator
\* of a candidate of that call whose primary score no candidate of that call
\* exceeds.
C3_SelectsMaximalCandidate ==
  (pc = "idle" /\ call.status = "done") =>
    \E i \in 1..Len(call.results) :
      /\ self.trained_pipeline = call.results[i].gs
      /\ \A j \in 1..Len(call.results) : Primary(call.results[j]) <= Primary(call.results[i])

\* C4: after a regressor's train with the log transform has finished,
\* predict returns, element for element, the exponential of the retained
\* pipeline's raw predictions.
C4_PredictExponentiates ==
  (ret.op = "predict" /\ self.type_of_estimator = "regressor" /\ call.status = "done" /\ call.logged) =>
    /\ ret.status = "ok"
    /\ Len(ret.value) = Len(ret.raw)
    /\ \A i \in 1..Len(ret.raw) : ret.value[i] = MathExp(ret.raw[i])

\* C6: after any number of train calls on a regressor, none of them made to
\* fail from outside, the last call has reached the ready state, the retained
\* pipeline is one of that call's candidates, and no per-family result
\* remains on the instance.
C6_EveryCallReachesReady ==
  (pc = "idle" /\ call.id >= 1 /\ call.clean /\ self.type_of_estimator = "regressor") =>
    /\ call.status = "done"
    /\ \E i \in 1..Len(call.results) : self.trained_pipeline = call.results[i].gs
    /\ Len(self.grid_search_pipelines) = 0

\* C8: in a per-family search where some combination fitted, a combination
\* that failed to fit does not abort the search, its score does not rank
\* above a fitted combination's, and the search's best estimator is not a
\* failed combination.
C8_FailedCombinationNeverBest ==
  (call.search.searched /\ call.search.some_fitted /\ call.search.some_failed) =>
    /\ ~call.search.raised
    /\ call.search.best_score < error_score
    /\ ~call.search.best_failed

\* C9: after a train call, took_log_of_y is true exactly when that call
\* log-transformed the targets; a classifier's train gets past target
\* preparation and the log step, and leaves the flag false.
C9_FlagTracksLastCall ==
  (pc = "idle" /\ call.id >= 1) =>
    /\ self.took_log_of_y <=> call.logged
    /\ self.type_of_estimator = "classifier" =>
         /\ ~self.took_log_of_y
         /\ ~(call.status = "aborted" /\ call.line <= 188)

\* the stage a parameter path addresses: the step name before "__"
Stage(path) ==
  CASE path = "final_model__perform_grid_search_on_model" -> "final_model"
    [] path = "final_model__model_name" -> "final_model"
    [] path = "scaler__truncate_large_values" -> "scaler"
    [] path = "feature_selection__feature_selection_model" -> "feature_selection"

\* C11: in every train call, every parameter path of the grid handed to a
\* per-family search addresses a stage of the pipeline constructed for that
\* call; no feature_selection__ or scaler__ axis is searched when that stage
\* was left out.
C11_GridAddressesPresentStages ==
  call.search.searched =>
    \A path \in DOMAIN self.grid_search_params :
      \E i \in 1..Len(call.ppl.steps) : call.ppl.steps[i] = Stage(path)

\* C12: while a train call has not completed its selection, and after it has
\* aborted, the retained trained pipeline is not one fitted by that call: the
\* reference is the one held before the call.
C12_AbortKeepsTrainedPipeline ==
  (call.id >= 1 /\ call.status # "done") =>
    ~(self.trained_pipeline.fitted /\ self.trained_pipeline.call = call.id)

====
